---- MODULE Spec2Model ----
(***************************************************************************)
(* A model of gossh's ssh.go: the websocket <-> SSH session bridge         *)
(* (handleSSHConnection with its stdout, stderr and control goroutines and *)
(* the detached handleFileUpload tasks) and the download entry point       *)
(* (downloadFileViaSSH).                                                   *)
(*                                                                         *)
(* The SSH library and the websocket library are the environment: the      *)
(* remote shell, the transport and the browser are modelled by the         *)
(* outcomes their calls can have.                                          *)
(***************************************************************************)
EXTENDS Integers, Sequences, FiniteSets, Bags, TLC

(***************************************************************************)
(* Bounds of the model.                                                    *)
(***************************************************************************)
\* Environment inputs in one run: client frames read plus bytes of remote
\* output (stdout and stderr together).
MaxEvents == 3
\* Length of the read buffers of the output workers (make([]byte, 1024) in
\* the code, scaled down).
BufSize == 2

VARIABLES
    \* handleSSHConnection itself (the bridge goroutine)
    brPc,       \* position in handleSSHConnection
    released,   \* log of Close() calls: <<resource, goroutine>>
    diag,       \* text frames written to the client channel during set-up
    pty,        \* the pseudo-terminal the shell session has been given
    \* environment
    remote,     \* "none", "up" (dialled), "running" (shell), "exiting"
                \* (streams ended, exit status on its way), "exited", "lost"
    client,     \* "connected" or "gone"
    budget,     \* environment inputs left (MaxEvents)
    \* stdout goroutine (lines 122-137)
    outPc, outBuf, outN, outTaken, outSent,
    \* stderr goroutine (lines 139-153)
    errPc, errBuf, errN, errTaken, errSent,
    \* control goroutine (lines 156-188)
    ctlPc, ctlMsg, stdin, ctlLog,
    \* handleFileUpload goroutines, a bag of task records
    uploads,
    \* the client channel as a shared object
    wsGarbled,  \* an overlapping write has corrupted a frame on the wire
    panicked,   \* the websocket library detected the overlap and panicked
    \* downloadFileViaSSH (one call)
    dl,
    \* one upload call followed step by step: handleFileUpload or uploadFileViaSSH
    up,
    \* connection establishment of one call (client configuration and dial)
    est

brVars  == <<brPc, released, diag, pty>>
envVars == <<remote, client, budget>>
outVars == <<outPc, outBuf, outN, outTaken, outSent>>
errVars == <<errPc, errBuf, errN, errTaken, errSent>>
ctlVars == <<ctlPc, ctlMsg, stdin, ctlLog>>
wsVars  == <<wsGarbled, panicked>>
sessVars == <<brVars, envVars, outVars, errVars, ctlVars, uploads, wsVars>>
otherVars == <<dl, up, est>>
vars == <<sessVars, otherVars>>

(***************************************************************************)
(* Small helpers.                                                          *)
(***************************************************************************)
Min(a, b) == IF a < b THEN a ELSE b

RECURSIVE Concat(_)
Concat(ss) == IF ss = <<>> THEN <<>> ELSE Head(ss) \o Concat(Tail(ss))

IsPrefix(s, t) == Len(s) <= Len(t) /\ SubSeq(t, 1, Len(s)) = s

\* The bytes of a remote stream are numbered: byte k of the stream is k.
Stream(n) == [i \in 1..n |-> i]

Closed(res) == \E i \in 1..Len(released) : released[i][1] = res
CloseCount(res) == Cardinality({i \in 1..Len(released) : released[i][1] = res})

(***************************************************************************)
(* WSMessage (lines 17-24) and json.Unmarshal into it (line 166).          *)
(* A client frame is a JSON object holding some of the fields, or text     *)
(* that is not JSON; a field the frame omits decodes to its zero value.    *)
(***************************************************************************)
WSFields == {"type", "data", "cols", "rows", "filename", "size"}

ZeroValue(f) == IF f \in {"cols", "rows", "size"} THEN 0 ELSE ""

NoMsg == [f \in WSFields |-> ZeroValue(f)]

Frames ==
    { [type |-> "input", data |-> d] : d \in {"a", "b"} }
    \cup { [type |-> "resize", rows |-> 40, cols |-> 120],
           [type |-> "resize"] }
    \cup { [type |-> "upload", filename |-> "f", data |-> d] : d \in {"aGk=", "!"} }
    \cup { [type |-> "ping"], [garbage |-> TRUE] }

UnmarshalOk(frame) == "garbage" \notin DOMAIN frame

Unmarshal(frame) ==
    [f \in WSFields |-> IF f \in DOMAIN frame THEN frame[f] ELSE ZeroValue(f)]

(***************************************************************************)
(* base64.StdEncoding.DecodeString (line 219) on the payloads used here.   *)
(***************************************************************************)
\* a faulty variant: the decode error is not looked at
Base64Ok_Lenient(s) == TRUE

Base64Ok(s) == s \in {"", "aGk="}

(***************************************************************************)
(* Initial state: handleSSHConnection has just been called.                *)
(***************************************************************************)
DlIdle == [pc |-> "idle"]
UpIdle == [pc |-> "idle"]
EstIdle == [pc |-> "idle"]

\* make([]byte, 1024), lines 123 and 140: a zeroed buffer
EmptyBuf == [i \in 1..BufSize |-> 0]

\* no pseudo-terminal requested yet
NoPty == [term |-> "", rows |-> 0, cols |-> 0]

\* the variables of the session at the call of handleSSHConnection
SessionAt(pc) ==
    /\ brPc = pc
    /\ released = <<>>
    /\ diag = 0
    /\ pty = NoPty
    /\ remote = "none"
    /\ client = "connected"
    /\ budget = MaxEvents
    /\ outPc = "idle" /\ outBuf = EmptyBuf /\ outN = 0 /\ outTaken = 0 /\ outSent = <<>>
    /\ errPc = "idle" /\ errBuf = EmptyBuf /\ errN = 0 /\ errTaken = 0 /\ errSent = <<>>
    /\ ctlPc = "idle" /\ ctlMsg = NoMsg /\ stdin = "none" /\ ctlLog = <<>>
    /\ uploads = EmptyBag
    /\ wsGarbled = FALSE
    /\ panicked = FALSE

Init ==
    /\ SessionAt("parsekey")
    /\ dl = DlIdle
    /\ up = UpIdle
    /\ est = EstIdle

(***************************************************************************)
(* The client channel (websocket.Conn).  WriteMessage is not atomic: a     *)
(* call is in progress from its begin step to its end step.  The code      *)
(* takes no lock around it, so two calls may overlap; the outcome of an    *)
(* overlap is not defined by the library: the frames may come out intact,  *)
(* a frame may be corrupted on the wire, or the library panics.            *)
(***************************************************************************)
UploadsAt(pc) == {t \in BagToSet(uploads) : t.pc = pc}

WritersInProgress ==
    (IF outPc = "writing" THEN 1 ELSE 0)
    + (IF errPc = "writing" THEN 1 ELSE 0)
    + BagCardinality([t \in UploadsAt("responding") |-> uploads[t]])

\* The effect on the channel of a WriteMessage call that begins now.
WriteBegins ==
    IF WritersInProgress > 0
    THEN \E o \in {"intact", "garbled", "panic"} :
            /\ wsGarbled' = (wsGarbled \/ o = "garbled")
            /\ panicked' = (o = "panic")
    ELSE UNCHANGED wsVars

\* WriteMessage puts a frame on the wire only while the browser is there and
\* wsConn.Close() has not been called; otherwise it returns an error
WsWritable == client = "connected" /\ ~Closed("ws")

(***************************************************************************)
(* handleSSHConnection: set-up (lines 33-117).                             *)
(***************************************************************************)
\* lines 46-54: ssh.ParsePrivateKey when key bytes are present
BrParseKey ==
    /\ brPc = "parsekey"
    /\ \E key \in {"none", "good", "bad"} :
          IF key = "bad"
          THEN /\ diag' = diag + 1
               /\ brPc' = "returned"
          ELSE /\ brPc' = "dial"
               /\ diag' = diag
    /\ UNCHANGED <<released, pty, envVars, outVars, errVars, ctlVars, uploads, wsVars, otherVars>>

\* a faulty variant: a failed dial returns without a diagnostic frame
BrDial_Silent ==
    /\ brPc = "dial"
    /\ \E ok \in BOOLEAN :
          IF ok
          THEN /\ remote' = "up"
               /\ brPc' = "newsession"
          ELSE /\ brPc' = "returned"
               /\ remote' = remote
    /\ UNCHANGED <<released, pty, diag, client, budget, outVars, errVars, ctlVars, uploads, wsVars, otherVars>>

\* lines 62-68: ssh.Dial; defer sshConn.Close()
BrDial ==
    /\ brPc = "dial"
    /\ \E ok \in BOOLEAN :
          IF ok
          THEN /\ remote' = "up"
               /\ brPc' = "newsession"
               /\ diag' = diag
          ELSE /\ diag' = diag + 1
               /\ brPc' = "returned"
               /\ remote' = remote
    /\ UNCHANGED <<released, pty, client, budget, outVars, errVars, ctlVars, uploads, wsVars, otherVars>>

\* lines 71-77: sshConn.NewSession; defer session.Close()
BrNewSession ==
    /\ brPc = "newsession"
    /\ \E ok \in BOOLEAN :
          IF ok
          THEN /\ brPc' = "pty"
               /\ diag' = diag
          ELSE /\ diag' = diag + 1
               /\ brPc' = "closeconn"
    /\ UNCHANGED <<released, pty, envVars, outVars, errVars, ctlVars, uploads, wsVars, otherVars>>

\* a faulty variant: height and width exchanged
PtyRequest_Swapped == [term |-> "xterm-256color", rows |-> 80, cols |-> 40]

\* line 87: the arguments of RequestPty(term, h, w, modes): h = 40 rows,
\* w = 80 columns
PtyRequest == [term |-> "xterm-256color", rows |-> 40, cols |-> 80]

\* lines 87-91: session.RequestPty("xterm-256color", 40, 80, modes)
BrRequestPty ==
    /\ brPc = "pty"
    /\ \E ok \in BOOLEAN :
          IF ok
          THEN /\ brPc' = "pipes"
               /\ pty' = PtyRequest
               /\ diag' = diag
          ELSE /\ diag' = diag + 1
               /\ brPc' = "closesession"
               /\ pty' = pty
    /\ UNCHANGED <<released, envVars, outVars, errVars, ctlVars, uploads, wsVars, otherVars>>

\* lines 94-110: StdinPipe, StdoutPipe, StderrPipe; a failure only logs
BrPipes ==
    /\ brPc = "pipes"
    /\ \E failing \in {"none", "stdin", "stdout", "stderr"} :
          brPc' = IF failing = "none" THEN "shell" ELSE "closesession"
    /\ UNCHANGED <<released, pty, diag, envVars, outVars, errVars, ctlVars, uploads, wsVars, otherVars>>

\* lines 113-117: session.Shell()
BrShell ==
    /\ brPc = "shell"
    /\ \E ok \in BOOLEAN :
          IF ok
          THEN /\ remote' = "running"
               /\ stdin' = "open"
               /\ brPc' = "spawn"
               /\ diag' = diag
          ELSE /\ diag' = diag + 1
               /\ brPc' = "closesession"
               /\ UNCHANGED <<remote, stdin>>
    /\ UNCHANGED <<released, pty, client, budget, outVars, errVars, ctlPc, ctlMsg, ctlLog, uploads, wsVars, otherVars>>

\* lines 120-188: make(chan bool) and the three go statements
BrSpawn ==
    /\ brPc = "spawn"
    /\ brPc' = "waitdone"
    /\ outPc' = "read"
    /\ errPc' = "read"
    /\ ctlPc' = "read"
    /\ UNCHANGED <<released, pty, diag, envVars, outBuf, outN, outTaken, outSent,
                   errBuf, errN, errTaken, errSent, ctlMsg, stdin, ctlLog,
                   uploads, wsVars, otherVars>>

(***************************************************************************)
(* handleSSHConnection: wait and teardown (lines 190-199, defers 68, 77).  *)
(***************************************************************************)
\* a faulty variant: the bridge also takes the end of the stderr worker for
\* the termination signal
BrRecvDone_OnEitherWorker ==
    /\ brPc = "waitdone"
    /\ \/ /\ outPc = "signal"
          /\ outPc' = "stopped"
       \/ /\ errPc = "stopped"
          /\ outPc' = outPc
    /\ brPc' = "sessionwait"
    /\ UNCHANGED <<released, pty, diag, envVars, outBuf, outN, outTaken, outSent,
                   errVars, ctlVars, uploads, wsVars, otherVars>>

\* line 191 with line 130: done is unbuffered, so the send of the stdout
\* goroutine and the receive of the bridge are one rendezvous
BrRecvDone ==
    /\ brPc = "waitdone"
    /\ outPc = "signal"
    /\ brPc' = "sessionwait"
    /\ outPc' = "stopped"
    /\ UNCHANGED <<released, pty, diag, envVars, outBuf, outN, outTaken, outSent,
                   errVars, ctlVars, uploads, wsVars, otherVars>>

\* a faulty variant: the bridge goes on without session.Wait()
BrSessionWait_NoWait ==
    /\ brPc = "sessionwait"
    /\ brPc' = "wsclose"
    /\ UNCHANGED <<released, pty, diag, envVars, outVars, errVars, ctlVars, uploads, wsVars, otherVars>>

\* line 195: session.Wait() returns once the remote shell has reported its
\* exit status or the channel is gone
BrSessionWait ==
    /\ brPc = "sessionwait"
    /\ remote \in {"exited", "lost"}
    /\ brPc' = "wsclose"
    /\ UNCHANGED <<released, pty, diag, envVars, outVars, errVars, ctlVars, uploads, wsVars, otherVars>>

\* line 198: wsConn.Close()
BrWsClose ==
    /\ brPc = "wsclose"
    /\ released' = Append(released, <<"ws", "bridge">>)
    /\ brPc' = "closesession"
    /\ UNCHANGED <<diag, pty, envVars, outVars, errVars, ctlVars, uploads, wsVars, otherVars>>

\* line 77, run at return: defer session.Close()
BrCloseSession ==
    /\ brPc = "closesession"
    /\ released' = Append(released, <<"session", "bridge">>)
    /\ brPc' = "closeconn"
    /\ UNCHANGED <<diag, pty, envVars, outVars, errVars, ctlVars, uploads, wsVars, otherVars>>

\* line 68, run at return: defer sshConn.Close()
BrCloseConn ==
    /\ brPc = "closeconn"
    /\ released' = Append(released, <<"conn", "bridge">>)
    /\ brPc' = "returned"
    /\ UNCHANGED <<diag, pty, envVars, outVars, errVars, ctlVars, uploads, wsVars, otherVars>>

(***************************************************************************)
(* The output goroutines (lines 122-137 and 139-153).                      *)
(* Read returns the next n bytes of the stream (1 <= n <= len(buf)) when   *)
(* the shell has written some, n = 0 without an error (io.Reader allows    *)
(* it), io.EOF once the shell has exited or the session is closed, and     *)
(* another error when the transport is lost.                               *)
(***************************************************************************)
\* Read(buf): data lands in buf[0:n], the rest of buf keeps what it held
ReadInto(buf, data) ==
    [i \in 1..BufSize |-> IF i <= Len(data) THEN data[i] ELSE buf[i]]

NextBytes(taken, n) == [i \in 1..n |-> taken + i]

\* lines 133 and 149: if n > 0
ForwardsChunk(n) == n > 0

\* a faulty variant: the whole buffer is sent, not buf[:n]
FrameOf_WholeBuffer(buf, n) == buf

\* lines 134 and 150: the frame is buf[:n]
FrameOf(buf, n) == SubSeq(buf, 1, n)

ReadEOF == remote \in {"exiting", "exited"} \/ Closed("session")
ReadFault == remote = "lost"

\* lines 125-133: n, err := stdout.Read(buf)
OutRead ==
    /\ outPc = "read"
    /\ \/ /\ remote = "running"
          /\ \E n \in 0..Min(BufSize, budget) :
                /\ outBuf' = ReadInto(outBuf, NextBytes(outTaken, n))
                /\ outN' = n
                /\ outTaken' = outTaken + n
                /\ budget' = budget - n
                /\ outPc' = IF ForwardsChunk(n) THEN "write" ELSE "read"
          /\ UNCHANGED <<remote, client>>
       \/ /\ ReadEOF \/ ReadFault
          /\ outPc' = "signal"
          /\ UNCHANGED <<outBuf, outN, outTaken, envVars>>
    /\ UNCHANGED <<brVars, outSent, errVars, ctlVars, uploads, wsVars, otherVars>>

\* line 134: wsConn.WriteMessage(websocket.BinaryMessage, buf[:n]) is entered
OutWriteBegin ==
    /\ outPc = "write"
    /\ outPc' = "writing"
    /\ outSent' = Append(outSent, FrameOf(outBuf, outN))
    /\ WriteBegins
    /\ UNCHANGED <<brVars, envVars, outBuf, outN, outTaken, errVars, ctlVars, uploads, otherVars>>

\* line 134: WriteMessage returns (its error is dropped)
OutWriteEnd ==
    /\ outPc = "writing"
    /\ outPc' = "read"
    /\ outN' = 0
    /\ UNCHANGED <<brVars, envVars, outBuf, outTaken, outSent, errVars, ctlVars, uploads, wsVars, otherVars>>

\* lines 142-149: n, err := stderr.Read(buf); an error only returns
ErrRead ==
    /\ errPc = "read"
    /\ \/ /\ remote = "running"
          /\ \E n \in 0..Min(BufSize, budget) :
                /\ errBuf' = ReadInto(errBuf, NextBytes(errTaken, n))
                /\ errN' = n
                /\ errTaken' = errTaken + n
                /\ budget' = budget - n
                /\ errPc' = IF ForwardsChunk(n) THEN "write" ELSE "read"
          /\ UNCHANGED <<remote, client>>
       \/ /\ ReadEOF \/ ReadFault
          /\ errPc' = "stopped"
          /\ UNCHANGED <<errBuf, errN, errTaken, envVars>>
    /\ UNCHANGED <<brVars, outVars, errSent, ctlVars, uploads, wsVars, otherVars>>

\* line 150: wsConn.WriteMessage(websocket.BinaryMessage, buf[:n]) is entered
ErrWriteBegin ==
    /\ errPc = "write"
    /\ errPc' = "writing"
    /\ errSent' = Append(errSent, FrameOf(errBuf, errN))
    /\ WriteBegins
    /\ UNCHANGED <<brVars, envVars, outVars, errBuf, errN, errTaken, ctlVars, uploads, otherVars>>

\* line 150: WriteMessage returns
ErrWriteEnd ==
    /\ errPc = "writing"
    /\ errPc' = "read"
    /\ errN' = 0
    /\ UNCHANGED <<brVars, envVars, outVars, errBuf, errTaken, errSent, ctlVars, uploads, wsVars, otherVars>>

(***************************************************************************)
(* The control goroutine (lines 156-188).                                  *)
(***************************************************************************)
\* wsConn.ReadMessage fails once the browser is gone or the channel has
\* been closed by wsConn.Close()
WsReadFails == client = "gone" \/ Closed("ws")

\* stdin.Write succeeds while the shell channel is open
StdinWritable == remote = "running" /\ stdin = "open" /\ ~Closed("session")

\* a faulty variant: the arguments in the order (cols, rows)
WindowChangeRequest_Swapped(msg) == <<"winch", msg.cols, msg.rows>>

\* line 180: session.WindowChange(msg.Rows, msg.Cols); WindowChange(h, w)
WindowChangeRequest(msg) == <<"winch", msg.rows, msg.cols>>

\* a faulty variant: the control goroutine also closes the client channel
\* when its read fails
CtlReadFault_ClosesChannel ==
    /\ ctlPc = "read"
    /\ WsReadFails
    /\ stdin' = "closed"
    /\ ctlPc' = "exit_readfault"
    /\ released' = Append(released, <<"ws", "control">>)
    /\ UNCHANGED <<brPc, diag, pty, envVars, outVars, errVars, ctlMsg, ctlLog, uploads, wsVars, otherVars>>

\* a faulty variant: the control goroutine returns without stdin.Close()
CtlReadFault_LeavesInputOpen ==
    /\ ctlPc = "read"
    /\ WsReadFails
    /\ ctlPc' = "exit_readfault"
    /\ UNCHANGED <<brVars, envVars, outVars, errVars, ctlMsg, stdin, ctlLog, uploads, wsVars, otherVars>>

\* lines 158-163: ReadMessage fails: stdin.Close() and return
CtlReadFault ==
    /\ ctlPc = "read"
    /\ WsReadFails
    /\ stdin' = "closed"
    /\ ctlPc' = "exit_readfault"
    /\ UNCHANGED <<brVars, envVars, outVars, errVars, ctlMsg, ctlLog, uploads, wsVars, otherVars>>

\* lines 158-169: ReadMessage returns a frame; json.Unmarshal; a frame that
\* does not decode is logged and skipped
CtlRead ==
    /\ ctlPc = "read"
    /\ ~WsReadFails
    /\ budget > 0
    /\ \E frame \in Frames :
          IF UnmarshalOk(frame)
          THEN /\ ctlMsg' = Unmarshal(frame)
               /\ ctlPc' = "dispatch"
          ELSE /\ ctlMsg' = ctlMsg
               /\ ctlPc' = "read"
    /\ budget' = budget - 1
    /\ UNCHANGED <<brVars, remote, client, outVars, errVars, stdin, ctlLog, uploads, wsVars, otherVars>>

\* a faulty variant: the data is put in front of what was written before
CtlInput_Prepends ==
    /\ ctlPc = "dispatch"
    /\ ctlMsg.type = "input"
    /\ IF StdinWritable
       THEN /\ ctlLog' = <<<<"input", ctlMsg.data>>>> \o ctlLog
            /\ ctlPc' = "read"
       ELSE /\ ctlLog' = ctlLog
            /\ ctlPc' = "exit_writeerr"
    /\ ctlMsg' = NoMsg
    /\ UNCHANGED <<brVars, envVars, outVars, errVars, stdin, uploads, wsVars, otherVars>>

\* lines 172-177: case "input": stdin.Write([]byte(msg.Data)); a failed
\* write returns from the goroutine
CtlInput ==
    /\ ctlPc = "dispatch"
    /\ ctlMsg.type = "input"
    /\ IF StdinWritable
       THEN /\ ctlLog' = Append(ctlLog, <<"input", ctlMsg.data>>)
            /\ ctlPc' = "read"
       ELSE /\ ctlLog' = ctlLog
            /\ ctlPc' = "exit_writeerr"
    /\ ctlMsg' = NoMsg
    /\ UNCHANGED <<brVars, envVars, outVars, errVars, stdin, uploads, wsVars, otherVars>>

\* lines 178-182: case "resize": session.WindowChange; its error is logged
CtlResize ==
    /\ ctlPc = "dispatch"
    /\ ctlMsg.type = "resize"
    /\ ctlLog' = Append(ctlLog, WindowChangeRequest(ctlMsg))
    /\ ctlPc' = "read"
    /\ ctlMsg' = NoMsg
    /\ UNCHANGED <<brVars, envVars, outVars, errVars, stdin, uploads, wsVars, otherVars>>

\* a handleFileUpload call that has just been started with msg
NewUpload(msg) == [pc |-> "decode", data |-> msg.data, success |-> FALSE]

\* a faulty variant: handleFileUpload is called without go, so the control
\* goroutine runs the upload itself
CtlUpload_Inline ==
    /\ ctlPc = "dispatch"
    /\ ctlMsg.type = "upload"
    /\ uploads' = uploads (+) SetToBag({NewUpload(ctlMsg)})
    /\ ctlLog' = Append(ctlLog, <<"upload", ctlMsg.filename>>)
    /\ ctlPc' = "uploading"
    /\ ctlMsg' = NoMsg
    /\ UNCHANGED <<brVars, envVars, outVars, errVars, stdin, wsVars, otherVars>>

\* lines 183-185: case "upload": go handleFileUpload(wsConn, sshConn, msg)
CtlUpload ==
    /\ ctlPc = "dispatch"
    /\ ctlMsg.type = "upload"
    /\ uploads' = uploads (+) SetToBag({NewUpload(ctlMsg)})
    /\ ctlLog' = Append(ctlLog, <<"upload", ctlMsg.filename>>)
    /\ ctlPc' = "read"
    /\ ctlMsg' = NoMsg
    /\ UNCHANGED <<brVars, envVars, outVars, errVars, stdin, wsVars, otherVars>>

\* a faulty variant: a default case that treats a frame of another type as
\* terminal input
CtlOther_WritesInput ==
    /\ ctlPc = "dispatch"
    /\ ctlMsg.type \notin {"input", "resize", "upload"}
    /\ ctlLog' = Append(ctlLog, <<"input", ctlMsg.data>>)
    /\ ctlPc' = "read"
    /\ ctlMsg' = NoMsg
    /\ UNCHANGED <<brVars, envVars, outVars, errVars, stdin, uploads, wsVars, otherVars>>

\* lines 171-186: the switch has no default case
CtlOther ==
    /\ ctlPc = "dispatch"
    /\ ctlMsg.type \notin {"input", "resize", "upload"}
    /\ ctlPc' = "read"
    /\ ctlMsg' = NoMsg
    /\ UNCHANGED <<brVars, envVars, outVars, errVars, stdin, ctlLog, uploads, wsVars, otherVars>>

(***************************************************************************)
(* handleFileUpload (lines 214-288) and sendUploadResponse (290-300), one  *)
(* goroutine per dispatched upload.                                        *)
(***************************************************************************)
\* the connection can still carry a new channel and its traffic
ConnUsable == remote \in {"running", "exiting", "exited"} /\ ~Closed("conn")

Becomes(t, u) == uploads' = (uploads (-) SetToBag({t})) (+) SetToBag({u})

Responding(ok) == [pc |-> "respond", data |-> "", success |-> ok]
UploadAt(pc) == [pc |-> pc, data |-> "", success |-> FALSE]

\* lines 219-225: base64.StdEncoding.DecodeString(msg.Data)
UpDecode ==
    /\ \E t \in UploadsAt("decode") :
          Becomes(t, IF Base64Ok(t.data) THEN UploadAt("newsession") ELSE Responding(FALSE))
    /\ UNCHANGED <<brVars, envVars, outVars, errVars, ctlVars, wsVars, otherVars>>

\* lines 231-238: sshConn.NewSession()
UpNewSession ==
    /\ \E t \in UploadsAt("newsession") :
          Becomes(t, IF ConnUsable THEN UploadAt("start") ELSE Responding(FALSE))
    /\ UNCHANGED <<brVars, envVars, outVars, errVars, ctlVars, wsVars, otherVars>>

\* lines 241-264: StdinPipe, StderrPipe, uploadSession.Start("cat > '...'")
UpStart ==
    /\ \E t \in UploadsAt("start") : \E ok \in BOOLEAN :
          Becomes(t, IF ok /\ ConnUsable THEN UploadAt("write") ELSE Responding(FALSE))
    /\ UNCHANGED <<brVars, envVars, outVars, errVars, ctlVars, wsVars, otherVars>>

\* lines 267-273: stdinPipe.Write(fileData); stdinPipe.Close()
UpWrite ==
    /\ \E t \in UploadsAt("write") : \E ok \in BOOLEAN :
          Becomes(t, IF ok /\ ConnUsable THEN UploadAt("wait") ELSE Responding(FALSE))
    /\ UNCHANGED <<brVars, envVars, outVars, errVars, ctlVars, wsVars, otherVars>>

\* lines 276-287: uploadSession.Wait(): exit status zero, or an error
UpWait ==
    /\ \E t \in UploadsAt("wait") : \E zero \in BOOLEAN :
          Becomes(t, Responding(zero /\ ConnUsable))
    /\ UNCHANGED <<brVars, envVars, outVars, errVars, ctlVars, wsVars, otherVars>>

\* lines 291-297: json.Marshal of the response (it cannot fail on these
\* fields), then wsConn.WriteMessage(websocket.TextMessage, data) is entered
UpRespondBegin ==
    /\ \E t \in UploadsAt("respond") :
          Becomes(t, [t EXCEPT !.pc = "responding"])
    /\ WriteBegins
    /\ UNCHANGED <<brVars, envVars, outVars, errVars, ctlVars, otherVars>>

\* lines 297-300: WriteMessage returns and the goroutine ends
UpRespondEnd ==
    /\ \E t \in UploadsAt("responding") :
          uploads' = uploads (-) SetToBag({t})
    /\ UNCHANGED <<brVars, envVars, outVars, errVars, ctlVars, wsVars, otherVars>>

(***************************************************************************)
(* The environment: the remote shell, the transport and the browser.       *)
(***************************************************************************)
\* the shell exits, on its own or because its input stream was closed: its
\* output streams are at end-of-stream, its exit status is yet to arrive
ShellExits ==
    /\ remote = "running"
    /\ remote' = "exiting"
    /\ UNCHANGED <<brVars, client, budget, outVars, errVars, ctlVars, uploads, wsVars, otherVars>>

\* the exit status of the shell arrives and its channel closes
ExitStatusArrives ==
    /\ remote = "exiting"
    /\ remote' = "exited"
    /\ UNCHANGED <<brVars, client, budget, outVars, errVars, ctlVars, uploads, wsVars, otherVars>>

\* the transport to the remote host is lost
LinkLost ==
    /\ remote \in {"running", "exiting"}
    /\ remote' = "lost"
    /\ UNCHANGED <<brVars, client, budget, outVars, errVars, ctlVars, uploads, wsVars, otherVars>>

\* the browser goes away
ClientDisconnects ==
    /\ client = "connected"
    /\ brPc # "returned"
    /\ client' = "gone"
    /\ UNCHANGED <<brVars, remote, budget, outVars, errVars, ctlVars, uploads, wsVars, otherVars>>

(***************************************************************************)
(* The session: every goroutine of one handleSSHConnection call.  A panic  *)
(* ends the process.                                                       *)
(***************************************************************************)
Bridge ==
    \/ BrParseKey \/ BrDial \/ BrNewSession \/ BrRequestPty \/ BrPipes
    \/ BrShell \/ BrSpawn \/ BrRecvDone \/ BrSessionWait \/ BrWsClose
    \/ BrCloseSession \/ BrCloseConn

StdoutWorker == OutRead \/ OutWriteBegin \/ OutWriteEnd
StderrWorker == ErrRead \/ ErrWriteBegin \/ ErrWriteEnd
ControlWorker == CtlReadFault \/ CtlRead \/ CtlInput \/ CtlResize \/ CtlUpload \/ CtlOther
UploadTasks ==
    \/ UpDecode \/ UpNewSession \/ UpStart \/ UpWrite \/ UpWait
    \/ UpRespondBegin \/ UpRespondEnd
Environment == ShellExits \/ ExitStatusArrives \/ LinkLost \/ ClientDisconnects

Next ==
    /\ ~panicked
    /\ \/ Bridge \/ StdoutWorker \/ StderrWorker \/ ControlWorker
       \/ UploadTasks \/ Environment

Spec == Init /\ [][Next]_vars

(***************************************************************************)
(* downloadFileViaSSH (lines 377-467), one call.                           *)
(* Paths are sequences of characters.                                      *)
(***************************************************************************)
\* bytes the remote file may hold
MaxFileBytes == 2

\* a faulty variant: the prefixes without their final slash
AllowedPaths_NoSlash ==
    << <<"/", "h", "o", "m", "e">>, <<"/", "o", "p", "t">>, <<"/", "t", "m", "p">> >>

\* line 379: allowedPaths := []string{"/home/", "/opt/", "/tmp/"}
AllowedPaths ==
    << <<"/", "h", "o", "m", "e", "/">>, <<"/", "o", "p", "t", "/">>, <<"/", "t", "m", "p", "/">> >>

\* line 382: len(remotePath) >= len(prefix) && remotePath[:len(prefix)] == prefix
HasPrefix(path, prefix) ==
    Len(path) >= Len(prefix) /\ SubSeq(path, 1, Len(prefix)) = prefix

\* lines 380-386: the loop over allowedPaths
IsAllowed(path) ==
    \E i \in 1..Len(AllowedPaths) : HasPrefix(path, AllowedPaths[i])

\* filepath.Base (line 443)
RECURSIVE StripSlashes(_)
StripSlashes(path) ==
    IF Len(path) > 0 /\ path[Len(path)] = "/"
    THEN StripSlashes(SubSeq(path, 1, Len(path) - 1))
    ELSE path

RECURSIVE AfterLastSlash(_)
AfterLastSlash(path) ==
    IF \E i \in 1..Len(path) : path[i] = "/"
    THEN AfterLastSlash(Tail(path))
    ELSE path

Base(path) ==
    IF path = <<>> THEN <<".">>
    ELSE IF StripSlashes(path) = <<>> THEN <<"/">>
    ELSE AfterLastSlash(StripSlashes(path))

\* the paths a request may carry
PathHeads ==
    { <<"/", "h", "o", "m", "e", "/">>, <<"/", "o", "p", "t", "/">>,
      <<"/", "t", "m", "p", "/">>, <<"/", "e", "t", "c", "/">>,
      <<"/", "t", "m", "p">>, <<"/", "h", "o", "m", "e">>, <<"/", "o", "p", "t">>,
      <<"t", "m", "p", "/">>, <<"/", "T", "M", "P", "/">>,
      <<"/", "v", "a", "r", "/", "t", "m", "p", "/">>, <<"/">>, <<>> }

PathTails ==
    { <<>>, <<"a">>, <<".", ".", "/", "x">>, <<"d", "/">>,
      <<"p", "a", "s", "s", "w", "d">>, <<"a", ".", "t", "x", "t">> }

DlPaths == { h \o t : h \in PathHeads, t \in PathTails }

NoError == "none"

DlStart(path, key) ==
    [pc |-> "check", path |-> path, key |-> key, err |-> NoError,
     filename |-> <<>>, events |-> <<>>, headers |-> {}, sink |-> 0,
     closed |-> <<>>, disposition |-> <<>>, copied |-> "no", exit |-> "none"]

DlInit ==
    /\ SessionAt("idle")
    /\ \E path \in DlPaths : \E key \in {"absent", "good", "bad"} :
          dl = DlStart(path, key)
    /\ up = UpIdle
    /\ est = EstIdle

\* the function returns an error: the deferred closes run first
DlFail(err, next) == [dl EXCEPT !.err = err, !.pc = next]

\* lines 379-389: the allow-list check
DlCheck ==
    /\ dl.pc = "check"
    /\ dl' = IF IsAllowed(dl.path)
             THEN [dl EXCEPT !.pc = "parsekey"]
             ELSE DlFail("access denied", "returned")
    /\ UNCHANGED <<sessVars, up, est>>

\* lines 392-409: the client configuration; ssh.ParsePrivateKey
DlParseKey ==
    /\ dl.pc = "parsekey"
    /\ dl' = CASE dl.key = "absent" -> [dl EXCEPT !.pc = "dial"]
               [] dl.key = "good" ->
                    [dl EXCEPT !.pc = "dial", !.events = Append(@, "parsekey")]
               [] OTHER ->
                    [DlFail("failed to parse private key", "returned")
                        EXCEPT !.events = Append(@, "parsekey")]
    /\ UNCHANGED <<sessVars, up, est>>

\* lines 412-421: ssh.Dial; defer sshConn.Close()
DlDial ==
    /\ dl.pc = "dial"
    /\ \E ok \in BOOLEAN :
          dl' = IF ok
                THEN [dl EXCEPT !.pc = "newsession", !.events = Append(@, "dial")]
                ELSE [DlFail("failed to connect to SSH server", "returned")
                        EXCEPT !.events = Append(@, "dial")]
    /\ UNCHANGED <<sessVars, up, est>>

\* lines 424-428: sshConn.NewSession(); defer downloadSession.Close()
DlNewSession ==
    /\ dl.pc = "newsession"
    /\ \E ok \in BOOLEAN :
          dl' = IF ok
                THEN [dl EXCEPT !.pc = "pipes", !.events = Append(@, "newsession")]
                ELSE [DlFail("failed to create download session", "closeconn")
                        EXCEPT !.events = Append(@, "newsession")]
    /\ UNCHANGED <<sessVars, up, est>>

\* a faulty variant: the headers are left for after the copy
DlPipes_SkipsHeaders ==
    /\ dl.pc = "pipes"
    /\ \E failing \in {"none", "stdout", "stderr"} :
          dl' = CASE failing = "none" -> [dl EXCEPT !.pc = "start"]
                  [] failing = "stdout" -> DlFail("failed to get stdout pipe", "closesession")
                  [] OTHER -> DlFail("failed to get stderr pipe", "closesession")
    /\ UNCHANGED <<sessVars, up, est>>

\* lines 431-440: StdoutPipe, StderrPipe
DlPipes ==
    /\ dl.pc = "pipes"
    /\ \E failing \in {"none", "stdout", "stderr"} :
          dl' = CASE failing = "none" -> [dl EXCEPT !.pc = "headers"]
                  [] failing = "stdout" -> DlFail("failed to get stdout pipe", "closesession")
                  [] OTHER -> DlFail("failed to get stderr pipe", "closesession")
    /\ UNCHANGED <<sessVars, up, est>>

\* lines 443-447: filepath.Base and the two response headers
DlHeaders ==
    /\ dl.pc = "headers"
    /\ dl' = [dl EXCEPT !.pc = "start",
                        !.filename = Base(dl.path),
                        !.disposition = Base(dl.path),
                        !.headers = {"Content-Disposition", "Content-Type"}]
    /\ UNCHANGED <<sessVars, up, est>>

\* lines 450-452: downloadSession.Start("cat '...'")
DlStartCommand ==
    /\ dl.pc = "start"
    /\ \E ok \in BOOLEAN :
          dl' = IF ok
                THEN [dl EXCEPT !.pc = "copy", !.events = Append(@, "start")]
                ELSE [DlFail("failed to start download command", "closesession")
                        EXCEPT !.events = Append(@, "start"), !.filename = <<>>]
    /\ UNCHANGED <<sessVars, up, est>>

\* lines 456-458: io.Copy(w, stdoutPipe): some bytes reach the sink, then
\* end-of-stream or an error
DlCopy ==
    /\ dl.pc = "copy"
    /\ \E n \in 0..MaxFileBytes : \E ok \in BOOLEAN :
          dl' = IF ok
                THEN [dl EXCEPT !.pc = "wait", !.sink = n, !.copied = "ok"]
                ELSE [DlFail("failed to stream file data", "closesession")
                        EXCEPT !.sink = n, !.filename = <<>>, !.copied = "failed"]
    /\ UNCHANGED <<sessVars, up, est>>

\* a faulty variant: the result of Wait is not looked at
DlWait_IgnoresExit ==
    /\ dl.pc = "wait"
    /\ \E zero \in BOOLEAN :
          dl' = [dl EXCEPT !.pc = "closesession",
                           !.exit = IF zero THEN "zero" ELSE "nonzero"]
    /\ UNCHANGED <<sessVars, up, est>>

\* lines 461-466: downloadSession.Wait(); return filename, nil
DlWait ==
    /\ dl.pc = "wait"
    /\ \E zero \in BOOLEAN :
          dl' = IF zero
                THEN [dl EXCEPT !.pc = "closesession", !.exit = "zero"]
                ELSE [DlFail("failed to download file", "closesession")
                        EXCEPT !.filename = <<>>, !.exit = "nonzero"]
    /\ UNCHANGED <<sessVars, up, est>>

\* line 428, run at return: defer downloadSession.Close()
DlCloseSession ==
    /\ dl.pc = "closesession"
    /\ dl' = [dl EXCEPT !.pc = "closeconn", !.closed = Append(@, "session")]
    /\ UNCHANGED <<sessVars, up, est>>

\* line 421, run at return: defer sshConn.Close()
DlCloseConn ==
    /\ dl.pc = "closeconn"
    /\ dl' = [dl EXCEPT !.pc = "returned", !.closed = Append(@, "conn")]
    /\ UNCHANGED <<sessVars, up, est>>

DlNext ==
    \/ DlCheck \/ DlParseKey \/ DlDial \/ DlNewSession \/ DlPipes \/ DlHeaders
    \/ DlStartCommand \/ DlCopy \/ DlWait \/ DlCloseSession \/ DlCloseConn

SpecDownload == DlInit /\ [][DlNext]_vars

(***************************************************************************)
(* One upload call followed step by step: handleFileUpload (lines 214-288, *)
(* its responses sent by sendUploadResponse) and uploadFileViaSSH (lines   *)
(* 302-375).  File names, paths and command lines are sequences of         *)
(* characters; the remote shell is modelled by how it reads a command      *)
(* line.                                                                   *)
(***************************************************************************)
\* lines 228 and 336: fmt.Sprintf("/tmp/%s", filename)
RemotePath(filename) == <<"/", "t", "m", "p", "/">> \o filename

\* lines 259 and 358: fmt.Sprintf("cat > '%s'", remotePath)
UploadCommand(path) == <<"c", "a", "t", " ", ">", " ", "'">> \o path \o <<"'">>

\* The command line as the remote shell reads it: a quote character opens
\* or closes a quoted stretch in which every character stands for itself;
\* outside quotes a space ends a word and a semicolon ends a command.  A
\* line that ends inside a quoted stretch is a syntax error and runs
\* nothing.
RECURSIVE ShScan(_, _, _, _, _, _)
ShScan(cs, quoted, word, inWord, words, cmds) ==
    LET endWord == IF inWord THEN Append(words, word) ELSE words
        endCmd == IF endWord # <<>> THEN Append(cmds, endWord) ELSE cmds
    IN  IF cs = <<>>
        THEN [ok |-> ~quoted, cmds |-> IF quoted THEN <<>> ELSE endCmd]
        ELSE LET c == Head(cs)
                 rest == Tail(cs)
             IN  CASE quoted /\ c = "'" -> ShScan(rest, FALSE, word, TRUE, words, cmds)
                   [] quoted /\ c # "'" -> ShScan(rest, TRUE, Append(word, c), TRUE, words, cmds)
                   [] ~quoted /\ c = "'" -> ShScan(rest, TRUE, word, TRUE, words, cmds)
                   [] ~quoted /\ c = " " -> ShScan(rest, FALSE, <<>>, FALSE, endWord, cmds)
                   [] ~quoted /\ c = ";" -> ShScan(rest, FALSE, <<>>, FALSE, <<>>, endCmd)
                   [] OTHER -> ShScan(rest, FALSE, Append(word, c), TRUE, words, cmds)

ShellReads(cmd) == ShScan(cmd, FALSE, <<>>, FALSE, <<>>, <<>>)

NothingRun == [ok |-> TRUE, cmds |-> <<>>]

\* base64.StdEncoding.DecodeString (line 219) on the payloads that decode
Base64Decode(s) == IF s = "aGk=" THEN <<104, 105>> ELSE <<>>

\* the file names a request may carry
UploadNames ==
    { <<"f">>, <<"a", " ", "b">>, <<"$", "x">>, <<"a", ";", "b">>,
      <<"a", "'", "b">>, <<"a", "'", " ", "'", "b">>,
      <<"'", ";", "x", ";", "'">>, <<>> }

UploadCall(fn, filename, data, bytes) ==
    [fn |-> fn, filename |-> filename, data |-> data, bytes |-> bytes,
     pc |-> IF fn = "handleFileUpload" THEN "decode" ELSE "config",
     link |-> "up", events |-> <<>>, shell |-> NothingRun, sent |-> <<>>,
     eof |-> FALSE, report |-> <<>>, closed |-> <<>>]

\* handleFileUpload is called with a message (base64 data), uploadFileViaSSH
\* with an io.Reader over the file's bytes
UploadInit ==
    /\ SessionAt("idle")
    /\ dl = DlIdle
    /\ est = EstIdle
    /\ \E filename \in UploadNames :
          \/ \E data \in {"", "aGk=", "!"} :
                up = UploadCall("handleFileUpload", filename, data, <<>>)
          \/ \E bytes \in {<<>>, <<104, 105>>} :
                up = UploadCall("uploadFileViaSSH", filename, "", bytes)

\* UploadResponse (lines 26-31), and the (string, error) uploadFileViaSSH
\* returns
Report(ok, path, err) == [success |-> ok, path |-> path, error |-> err]

UploadAtStep(fn, pc) == up.fn = fn /\ up.pc = pc

\* the failure branches of handleFileUpload: response.Success = false,
\* response.Error = ..., sendUploadResponse(wsConn, response), return
HfuFails(err, next) ==
    [up EXCEPT !.report = Append(@, Report(FALSE, <<>>, err)), !.pc = next]

\* lines 219-225: base64.StdEncoding.DecodeString(msg.Data)
HfuDecode ==
    /\ UploadAtStep("handleFileUpload", "decode")
    /\ up' = IF Base64Ok(up.data)
             THEN [up EXCEPT !.bytes = Base64Decode(up.data), !.pc = "newsession"]
             ELSE HfuFails("Failed to decode file data", "returned")
    /\ UNCHANGED <<sessVars, dl, est>>

\* lines 231-238: sshConn.NewSession(); defer uploadSession.Close()
HfuNewSession ==
    /\ UploadAtStep("handleFileUpload", "newsession")
    /\ \E ok \in BOOLEAN :
          up' = IF ok /\ up.link = "up"
                THEN [up EXCEPT !.events = Append(@, <<"open", TRUE>>), !.pc = "pipes"]
                ELSE [HfuFails("Failed to create upload session", "returned")
                        EXCEPT !.events = Append(@, <<"open", FALSE>>)]
    /\ UNCHANGED <<sessVars, dl, est>>

\* lines 241-256: StdinPipe, StderrPipe
HfuPipes ==
    /\ UploadAtStep("handleFileUpload", "pipes")
    /\ \E failing \in {"none", "stdin", "stderr"} :
          up' = CASE failing = "none" -> [up EXCEPT !.pc = "start"]
                  [] failing = "stdin" -> HfuFails("Failed to get stdin pipe", "closesession")
                  [] OTHER -> HfuFails("Failed to get stderr pipe", "closesession")
    /\ UNCHANGED <<sessVars, dl, est>>

\* lines 259-264: uploadSession.Start("cat > '<remotePath>'")
HfuStart ==
    /\ UploadAtStep("handleFileUpload", "start")
    /\ \E ok \in BOOLEAN :
          up' = IF ok /\ up.link = "up"
                THEN [up EXCEPT !.events = Append(@, <<"start", TRUE>>),
                                !.shell = ShellReads(UploadCommand(RemotePath(up.filename))),
                                !.pc = "write"]
                ELSE [HfuFails("Failed to start upload command", "closesession")
                        EXCEPT !.events = Append(@, <<"start", FALSE>>)]
    /\ UNCHANGED <<sessVars, dl, est>>

\* lines 267-272: stdinPipe.Write(fileData); a write of no bytes sends
\* nothing and succeeds
HfuWrite ==
    /\ UploadAtStep("handleFileUpload", "write")
    /\ \E ok \in BOOLEAN :
          up' = IF up.bytes = <<>> \/ (ok /\ up.link = "up")
                THEN [up EXCEPT !.events = Append(@, <<"write", TRUE>>),
                                !.sent = up.bytes, !.pc = "closestdin"]
                ELSE [HfuFails("Failed to write file data", "closesession")
                        EXCEPT !.events = Append(@, <<"write", FALSE>>)]
    /\ UNCHANGED <<sessVars, dl, est>>

\* line 273: stdinPipe.Close(), its result dropped; end-of-file reaches the
\* command unless the transport is gone
HfuCloseStdin ==
    /\ UploadAtStep("handleFileUpload", "closestdin")
    /\ up' = [up EXCEPT !.events = Append(@, <<"close", up.link = "up">>),
                        !.eof = (up.link = "up"), !.pc = "wait"]
    /\ UNCHANGED <<sessVars, dl, est>>

\* a faulty variant: the result of Wait is not looked at
HfuWait_IgnoresExit ==
    /\ UploadAtStep("handleFileUpload", "wait")
    /\ \E zero \in BOOLEAN :
          up' = [up EXCEPT !.events = Append(@, <<"wait", zero /\ up.link = "up" /\ up.shell.ok>>),
                           !.report = Append(@, Report(TRUE, RemotePath(up.filename), "")),
                           !.pc = "closesession"]
    /\ UNCHANGED <<sessVars, dl, est>>

\* lines 276-287: uploadSession.Wait(): nil when the command exited with
\* status zero; then response.Success = true, response.Path = remotePath
HfuWait ==
    /\ UploadAtStep("handleFileUpload", "wait")
    /\ \E zero \in BOOLEAN :
          up' = IF zero /\ up.link = "up" /\ up.shell.ok
                THEN [up EXCEPT !.events = Append(@, <<"wait", TRUE>>),
                                !.report = Append(@, Report(TRUE, RemotePath(up.filename), "")),
                                !.pc = "closesession"]
                ELSE [HfuFails("Failed to upload file", "closesession")
                        EXCEPT !.events = Append(@, <<"wait", FALSE>>)]
    /\ UNCHANGED <<sessVars, dl, est>>

\* line 238, run at return: defer uploadSession.Close()
HfuCloseSession ==
    /\ UploadAtStep("handleFileUpload", "closesession")
    /\ up' = [up EXCEPT !.closed = Append(@, "session"), !.pc = "returned"]
    /\ UNCHANGED <<sessVars, dl, est>>

\* the failure returns of uploadFileViaSSH: return "", fmt.Errorf(...)
UvsFails(err, next) ==
    [up EXCEPT !.report = Append(@, Report(FALSE, <<>>, err)), !.pc = next]

\* lines 304-321: the client configuration; ssh.ParsePrivateKey
UvsConfig ==
    /\ UploadAtStep("uploadFileViaSSH", "config")
    /\ \E key \in {"absent", "good", "bad"} :
          up' = IF key = "bad"
                THEN UvsFails("failed to parse private key", "returned")
                ELSE [up EXCEPT !.pc = "dial"]
    /\ UNCHANGED <<sessVars, dl, est>>

\* lines 324-333: ssh.Dial; defer sshConn.Close()
UvsDial ==
    /\ UploadAtStep("uploadFileViaSSH", "dial")
    /\ \E ok \in BOOLEAN :
          up' = IF ok
                THEN [up EXCEPT !.events = Append(@, <<"dial", TRUE>>), !.pc = "newsession"]
                ELSE [UvsFails("failed to connect to SSH server", "returned")
                        EXCEPT !.events = Append(@, <<"dial", FALSE>>)]
    /\ UNCHANGED <<sessVars, dl, est>>

\* a faulty variant: a failed NewSession returns without the deferred
\* sshConn.Close()
UvsNewSession_LeaksConn ==
    /\ UploadAtStep("uploadFileViaSSH", "newsession")
    /\ \E ok \in BOOLEAN :
          up' = IF ok /\ up.link = "up"
                THEN [up EXCEPT !.events = Append(@, <<"open", TRUE>>), !.pc = "pipes"]
                ELSE [UvsFails("failed to create upload session", "returned")
                        EXCEPT !.events = Append(@, <<"open", FALSE>>)]
    /\ UNCHANGED <<sessVars, dl, est>>

\* lines 339-343: sshConn.NewSession(); defer uploadSession.Close()
UvsNewSession ==
    /\ UploadAtStep("uploadFileViaSSH", "newsession")
    /\ \E ok \in BOOLEAN :
          up' = IF ok /\ up.link = "up"
                THEN [up EXCEPT !.events = Append(@, <<"open", TRUE>>), !.pc = "pipes"]
                ELSE [UvsFails("failed to create upload session", "closeconn")
                        EXCEPT !.events = Append(@, <<"open", FALSE>>)]
    /\ UNCHANGED <<sessVars, dl, est>>

\* lines 346-355: StdinPipe, StderrPipe
UvsPipes ==
    /\ UploadAtStep("uploadFileViaSSH", "pipes")
    /\ \E failing \in {"none", "stdin", "stderr"} :
          up' = CASE failing = "none" -> [up EXCEPT !.pc = "start"]
                  [] failing = "stdin" -> UvsFails("failed to get stdin pipe", "closesession")
                  [] OTHER -> UvsFails("failed to get stderr pipe", "closesession")
    /\ UNCHANGED <<sessVars, dl, est>>

\* lines 358-360: uploadSession.Start("cat > '<remotePath>'")
UvsStart ==
    /\ UploadAtStep("uploadFileViaSSH", "start")
    /\ \E ok \in BOOLEAN :
          up' = IF ok /\ up.link = "up"
                THEN [up EXCEPT !.events = Append(@, <<"start", TRUE>>),
                                !.shell = ShellReads(UploadCommand(RemotePath(up.filename))),
                                !.pc = "copy"]
                ELSE [UvsFails("failed to start upload command", "closesession")
                        EXCEPT !.events = Append(@, <<"start", FALSE>>)]
    /\ UNCHANGED <<sessVars, dl, est>>

\* lines 363-365: io.Copy(stdinPipe, file): fails when the file cannot be
\* read or a write fails; an empty file needs no write
UvsCopy ==
    /\ UploadAtStep("uploadFileViaSSH", "copy")
    /\ \E ok \in BOOLEAN :
          up' = IF ok /\ (up.bytes = <<>> \/ up.link = "up")
                THEN [up EXCEPT !.events = Append(@, <<"write", TRUE>>),
                                !.sent = up.bytes, !.pc = "closestdin"]
                ELSE [UvsFails("failed to write file data", "closesession")
                        EXCEPT !.events = Append(@, <<"write", FALSE>>)]
    /\ UNCHANGED <<sessVars, dl, est>>

\* line 366: stdinPipe.Close(), its result dropped
UvsCloseStdin ==
    /\ UploadAtStep("uploadFileViaSSH", "closestdin")
    /\ up' = [up EXCEPT !.events = Append(@, <<"close", up.link = "up">>),
                        !.eof = (up.link = "up"), !.pc = "wait"]
    /\ UNCHANGED <<sessVars, dl, est>>

\* lines 369-374: uploadSession.Wait(); return remotePath, nil
UvsWait ==
    /\ UploadAtStep("uploadFileViaSSH", "wait")
    /\ \E zero \in BOOLEAN :
          up' = IF zero /\ up.link = "up" /\ up.shell.ok
                THEN [up EXCEPT !.events = Append(@, <<"wait", TRUE>>),
                                !.report = Append(@, Report(TRUE, RemotePath(up.filename), "")),
                                !.pc = "closesession"]
                ELSE [UvsFails("failed to upload file", "closesession")
                        EXCEPT !.events = Append(@, <<"wait", FALSE>>)]
    /\ UNCHANGED <<sessVars, dl, est>>

\* line 343, run at return: defer uploadSession.Close()
UvsCloseSession ==
    /\ UploadAtStep("uploadFileViaSSH", "closesession")
    /\ up' = [up EXCEPT !.closed = Append(@, "session"), !.pc = "closeconn"]
    /\ UNCHANGED <<sessVars, dl, est>>

\* line 333, run at return: defer sshConn.Close()
UvsCloseConn ==
    /\ UploadAtStep("uploadFileViaSSH", "closeconn")
    /\ up' = [up EXCEPT !.closed = Append(@, "conn"), !.pc = "returned"]
    /\ UNCHANGED <<sessVars, dl, est>>

\* the transport to the remote host is lost while the call uses it
UploadLinkLost ==
    /\ up.pc \in {"newsession", "pipes", "start", "write", "copy", "closestdin", "wait"}
    /\ up.link = "up"
    /\ up' = [up EXCEPT !.link = "lost"]
    /\ UNCHANGED <<sessVars, dl, est>>

UploadNext ==
    \/ HfuDecode \/ HfuNewSession \/ HfuPipes \/ HfuStart \/ HfuWrite
    \/ HfuCloseStdin \/ HfuWait \/ HfuCloseSession
    \/ UvsConfig \/ UvsDial \/ UvsNewSession \/ UvsPipes \/ UvsStart \/ UvsCopy
    \/ UvsCloseStdin \/ UvsWait \/ UvsCloseSession \/ UvsCloseConn
    \/ UploadLinkLost

SpecUpload == UploadInit /\ [][UploadNext]_vars

\* one call of either transfer function: an upload call or a download call
TransferInit == UploadInit \/ DlInit

TransferNext ==
    \/ up.pc # "idle" /\ UploadNext
    \/ dl.pc # "idle" /\ DlNext

SpecTransfer == TransferInit /\ [][TransferNext]_vars

(***************************************************************************)
(* Connection establishment, the same code in handleSSHConnection (lines   *)
(* 34-67), uploadFileViaSSH (304-332) and downloadFileViaSSH (392-420):    *)
(* the list of authentication methods, the address, the dial.  Hosts are   *)
(* sequences of characters.                                                *)
(***************************************************************************)
\* a faulty variant: the password method is added whatever the password is
WithPassword_Always(auth, password) == Append(auth, "password")

\* lines 42-44, 311-313, 399-401: if password != "" { append ssh.Password }
WithPassword(auth, password) ==
    IF password # "" THEN Append(auth, "password") ELSE auth

\* lines 202-211: the loop of containsPort from index i down to the first
RECURSIVE ScanForPort(_, _)
ScanForPort(host, i) ==
    IF i < 1 THEN FALSE
    ELSE IF host[i] = ":" THEN TRUE
    ELSE IF host[i] = "]" THEN FALSE
    ELSE ScanForPort(host, i - 1)

\* containsPort (lines 201-212)
containsPort(host) == ScanForPort(host, Len(host))

\* lines 57-59, 324-326, 412-414: host = host + ":22" unless containsPort
DialAddress(host) ==
    IF containsPort(host) THEN host ELSE host \o <<":", "2", "2">>

\* the hosts a request may carry
EstHosts ==
    { <<"h">>, <<"h", ":", "2", "2", "2", "2">>, <<"1", ".", "2">>,
      <<"1", ".", "2", ":", "2", "2">>,
      <<"[", ":", ":", "1", "]">>, <<"[", ":", ":", "1", "]", ":", "2", "2">>,
      <<":", ":", "1">>, <<"f", "e", "8", "0", ":", ":", "1">> }

EstFunctions == {"handleSSHConnection", "uploadFileViaSSH", "downloadFileViaSSH"}

EstStart(fn, host, password, key) ==
    [fn |-> fn, host |-> host, password |-> password, key |-> key,
     pc |-> "password", auth |-> <<>>, addr |-> <<>>, dialled |-> <<>>,
     err |-> NoError]

EstInit ==
    /\ SessionAt("idle")
    /\ dl = DlIdle
    /\ up = UpIdle
    /\ \E fn \in EstFunctions : \E host \in EstHosts :
       \E password \in {"", "pw"} : \E key \in {"absent", "good", "bad"} :
          est = EstStart(fn, host, password, key)

EstAt(fn, pc) == est.fn = fn /\ est.pc = pc

\* Auth: []ssh.AuthMethod{} and the password method
EstPassword(fn) ==
    /\ EstAt(fn, "password")
    /\ est' = [est EXCEPT !.auth = WithPassword(@, est.password), !.pc = "key"]
    /\ UNCHANGED <<sessVars, dl, up>>

\* if len(privateKey) > 0: ssh.ParsePrivateKey; a key that does not parse
\* ends the call, a key that parses adds ssh.PublicKeys(signer)
EstKey(fn) ==
    /\ EstAt(fn, "key")
    /\ est' = CASE est.key = "absent" -> [est EXCEPT !.pc = "addr"]
                [] est.key = "good" ->
                     [est EXCEPT !.auth = Append(@, "publickey"), !.pc = "addr"]
                [] OTHER ->
                     [est EXCEPT !.err = "failed to parse private key", !.pc = "returned"]
    /\ UNCHANGED <<sessVars, dl, up>>

\* the default port
EstAddr(fn) ==
    /\ EstAt(fn, "addr")
    /\ est' = [est EXCEPT !.addr = DialAddress(est.host), !.pc = "dial"]
    /\ UNCHANGED <<sessVars, dl, up>>

\* ssh.Dial("tcp", host, config)
EstDial(fn) ==
    /\ EstAt(fn, "dial")
    /\ \E ok \in BOOLEAN :
          est' = [est EXCEPT !.dialled = Append(@, <<est.addr, est.auth>>),
                             !.err = IF ok THEN NoError ELSE "failed to connect",
                             !.pc = IF ok THEN "connected" ELSE "returned"]
    /\ UNCHANGED <<sessVars, dl, up>>

\* handleSSHConnection: lines 34-44, 46-54, 57-59, 62-67
BrEstPassword == EstPassword("handleSSHConnection")
BrEstKey == EstKey("handleSSHConnection")
BrEstAddr == EstAddr("handleSSHConnection")
BrEstDial == EstDial("handleSSHConnection")

\* uploadFileViaSSH: lines 304-313, 315-321, 324-326, 329-332
UvsEstPassword == EstPassword("uploadFileViaSSH")
UvsEstKey == EstKey("uploadFileViaSSH")
UvsEstAddr == EstAddr("uploadFileViaSSH")
UvsEstDial == EstDial("uploadFileViaSSH")

\* downloadFileViaSSH: lines 392-401, 403-409, 412-414, 417-420
DlEstPassword == EstPassword("downloadFileViaSSH")
DlEstKey == EstKey("downloadFileViaSSH")
DlEstAddr == EstAddr("downloadFileViaSSH")
DlEstDial == EstDial("downloadFileViaSSH")

EstNext ==
    \/ BrEstPassword \/ BrEstKey \/ BrEstAddr \/ BrEstDial
    \/ UvsEstPassword \/ UvsEstKey \/ UvsEstAddr \/ UvsEstDial
    \/ DlEstPassword \/ DlEstKey \/ DlEstAddr \/ DlEstDial

SpecEstablish == EstInit /\ [][EstNext]_vars

(***************************************************************************)
(* The same session under the scheduling the Go runtime gives: every       *)
(* goroutine that can take a step eventually takes one, and a shell whose  *)
(* input stream has been closed eventually exits, and the exit status of   *)
(* a shell whose streams have ended eventually arrives.                    *)
(***************************************************************************)
Fairness ==
    /\ WF_vars(~panicked /\ Bridge)
    /\ WF_vars(~panicked /\ StdoutWorker)
    /\ WF_vars(~panicked /\ StderrWorker)
    /\ WF_vars(~panicked /\ ControlWorker)
    /\ WF_vars(~panicked /\ UploadTasks)
    /\ WF_vars(~panicked /\ stdin = "closed" /\ ShellExits)
    /\ WF_vars(~panicked /\ ExitStatusArrives)

LiveSpec == Init /\ [][Next]_vars /\ Fairness

(***************************************************************************)
(* Properties.                                                             *)
(***************************************************************************)
\* the allow-list as the interface states it: the literal prefixes /home/,
\* /opt/ and /tmp/
StartsWith(path, prefix) == IsPrefix(prefix, path)

ListedPrefix(path) ==
    \/ StartsWith(path, <<"/", "h", "o", "m", "e", "/">>)
    \/ StartsWith(path, <<"/", "o", "p", "t", "/">>)
    \/ StartsWith(path, <<"/", "t", "m", "p", "/">>)

\* C2: a download path passes the check exactly when it starts with /home/,
\* /opt/ or /tmp/; a path that does not is refused with access-denied
\* before any key parsing, dial or command, with no header set and no byte
\* written; a path that does goes on to connection establishment.
C2_DownloadPathAuthorized ==
    IF dl.pc = "check"
    THEN dl.events = <<>> /\ dl.headers = {} /\ dl.sink = 0 /\ dl.err = NoError
    ELSE /\ (dl.err = "access denied") <=> ~ListedPrefix(dl.path)
         /\ ~ListedPrefix(dl.path) =>
               (/\ dl.pc = "returned"
                /\ dl.events = <<>> /\ dl.closed = <<>>
                /\ dl.headers = {} /\ dl.sink = 0 /\ dl.filename = <<>>)
         /\ ListedPrefix(dl.path) =>
               (dl.pc \in {"parsekey", "dial"} \/ dl.events # <<>>)

\* C2 witness: /etc/passwd has been refused.
C2_Witness ==
    /\ dl.path = <<"/", "e", "t", "c", "/", "p", "a", "s", "s", "w", "d">>
    /\ dl.pc = "returned"
    /\ dl.err = "access denied"

WorkersStarted == outPc # "idle"

IsWinch(e) == e[1] = "winch"
Winches(log) == SelectSeq(log, IsWinch)

\* C1: the WriteMessage calls of the stdout worker and of the stderr worker
\* on the client channel are never in progress at the same time, and no
\* frame reaches the client corrupted by another worker's write.
C1_OutputWritesSerialized ==
    /\ ~(outPc = "writing" /\ errPc = "writing")
    /\ ~wsGarbled

\* C3: the client channel, the shell session and the connection are each
\* released at most once, only by the bridge, and exactly once each when a
\* run that started the workers has returned.
C3_ReleasedExactlyOnceByBridge ==
    /\ \A i \in 1..Len(released) : released[i][2] = "bridge"
    /\ \A res \in {"ws", "session", "conn"} : CloseCount(res) <= 1
    /\ (WorkersStarted /\ brPc = "returned") =>
          \A res \in {"ws", "session", "conn"} : CloseCount(res) = 1

\* C3 witness: a run shut down by the client-channel read fault has returned.
C3_Witness ==
    /\ brPc = "returned"
    /\ ctlPc = "exit_readfault"
    /\ outPc = "stopped"
    /\ Len(released) = 3

\* C4: a dispatched resize message issues exactly one window-size-change
\* request, carrying the message's rows then cols; no other step issues one.
C4_ResizeIssuesExactRequest ==
    [][IF ctlPc = "dispatch" /\ ctlMsg.type = "resize" /\ ctlPc' # "dispatch"
       THEN Winches(ctlLog') = Append(Winches(ctlLog), <<"winch", ctlMsg.rows, ctlMsg.cols>>)
       ELSE Winches(ctlLog') = Winches(ctlLog)]_vars

\* C4 witness: the request for rows=40, cols=120 has been issued.
C4_Witness ==
    \E i \in 1..Len(ctlLog) :
        IsWinch(ctlLog[i]) /\ ctlLog[i][2] = 40 /\ ctlLog[i][3] = 120

\* C5: no window-size-change request carries a dimension below 1.
C5_GeometryAtLeastOne ==
    \A i \in 1..Len(ctlLog) :
        IsWinch(ctlLog[i]) => (ctlLog[i][2] >= 1 /\ ctlLog[i][3] >= 1)

\* C6: when its read of the client channel fails the control worker closes
\* the remote input stream and stops; once stopped that way it dispatches
\* nothing more and the input stream is closed.
C6_ReadFaultClosesInputAndStops ==
    [][/\ (ctlPc = "read" /\ WsReadFails /\ ctlPc' # "read") =>
              (ctlPc' = "exit_readfault" /\ stdin' = "closed" /\ ctlLog' = ctlLog)
       /\ (ctlPc = "exit_readfault") =>
              (stdin = "closed" /\ stdin' = "closed"
               /\ ctlPc' = "exit_readfault" /\ ctlLog' = ctlLog /\ ctlMsg' = ctlMsg)]_vars

\* C6 witness: the control worker has stopped on a read fault after it had
\* dispatched something.
C6_Witness == ctlPc = "exit_readfault" /\ ctlLog # <<>> /\ brPc = "waitdone"

\* C7: once the client has disconnected from an active session, eventually
\* the remote input stream is closed, the stdout worker has stopped and
\* handleSSHConnection has returned with the client channel, the shell
\* session and the connection closed.  (Runs in which the process has died
\* of the panic of an overlapping write are left aside: they are C1's.)
C7_DisconnectShutsSessionDown ==
    (WorkersStarted /\ client = "gone" /\ remote = "running")
        ~> (\/ /\ stdin = "closed"
               /\ outPc = "stopped"
               /\ brPc = "returned"
               /\ Closed("ws") /\ Closed("session") /\ Closed("conn")
            \/ panicked)

BridgeLeftWait ==
    WorkersStarted /\ brPc \in {"sessionwait", "wsclose", "closesession", "closeconn", "returned"}

\* C8: the bridge leaves its wait exactly when the stdout worker's read has
\* returned end-of-stream or a fault and the worker has signalled; the end
\* of the stderr worker changes nothing in the bridge and releases nothing.
C8_OnlyStdoutEndsSession ==
    /\ [](/\ BridgeLeftWait <=> outPc = "stopped"
          /\ (outPc = "signal") => (brPc = "waitdone")
          /\ (WorkersStarted /\ released # <<>>) => BridgeLeftWait)
    /\ [][/\ (outPc = "read" /\ outPc' \notin {"read", "write"}) => (outPc' = "signal")
          /\ (errPc # "stopped" /\ errPc' = "stopped") =>
                (brPc' = brPc /\ released' = released /\ outPc' = outPc)]_vars

\* C8 witness: the stderr worker has ended while the stdout worker still
\* reads and the bridge still waits.
C8_Witness ==
    errPc = "stopped" /\ outPc = "read" /\ brPc = "waitdone" /\ released = <<>>

\* the chunk the worker holds after its last read
LastChunk(taken, n) == SubSeq(Stream(taken), taken - n + 1, taken)

C10_UploadNeverBlocksControl ==
    /\ [][(ctlPc = "dispatch" /\ ctlMsg.type = "upload" /\ ctlPc' # "dispatch") =>
             (/\ ctlPc' = "read"
              /\ BagIn(NewUpload(ctlMsg), uploads')
              /\ BagCardinality(uploads') = BagCardinality(uploads) + 1)]_vars
    /\ []((uploads # EmptyBag /\ ~panicked) =>
             (/\ ctlPc \in {"read", "dispatch", "exit_readfault", "exit_writeerr"}
              /\ (ctlPc = "dispatch") => ENABLED ControlWorker
              /\ (ctlPc = "read" /\ (WsReadFails \/ budget > 0)) => ENABLED ControlWorker))

\* C10 witness: an input frame has been dispatched while two uploads were
\* in flight.
C10_Witness ==
    /\ BagCardinality(uploads) = 2
    /\ Len(ctlLog) = 3
    /\ ctlLog[3][1] = "input"

KnownTypes == {"input", "resize", "upload"}

\* a step in which the control worker takes a frame from the client channel
CtlTakesFrame ==
    ctlPc = "read" /\ budget' = budget - 1 /\ outTaken' = outTaken /\ errTaken' = errTaken

\* C11: a frame that does not decode, or whose type is none of input,
\* resize and upload, is dropped: nothing is written to the shell, no
\* request is issued, no upload is started, nothing is released, and the
\* control worker is back at its read of the next frame.
C11_BadFrameDropped ==
    [][/\ CtlTakesFrame =>
             (/\ ctlPc' \in {"read", "dispatch"}
              /\ (ctlPc' = "read") => (ctlMsg' = ctlMsg)
              /\ (ctlPc' = "dispatch") => (ctlMsg' # NoMsg)
              /\ UNCHANGED <<ctlLog, stdin, uploads, brVars, outSent, errSent, wsVars>>)
       /\ (ctlPc = "dispatch" /\ ctlMsg.type \notin KnownTypes /\ ctlPc' # "dispatch") =>
             (/\ ctlPc' = "read"
              /\ UNCHANGED <<ctlLog, stdin, uploads, brVars, outSent, errSent, wsVars>>)]_vars

\* C11 witness: two frames have been taken and dropped, and the control
\* worker of the running session is at its next read.
C11_Witness ==
    /\ ctlPc = "read" /\ stdin = "open" /\ remote = "running"
    /\ budget = MaxEvents - 2
    /\ outTaken = 0 /\ errTaken = 0
    /\ ctlLog = <<>> /\ uploads = EmptyBag

IsUploadEntry(e) == e[1] = "upload"
Dispatched == Len(SelectSeq(ctlLog, IsUploadEntry))
Responses(bag) == BagCardinality([t \in {u \in BagToSet(bag) : u.pc = "responding"} |-> bag[t]])
ResponseWritten == Responses(uploads') = Responses(uploads) + 1

\* C12: every dispatched upload makes exactly one attempt to write its
\* upload_response (an upload ends only by returning from that write, and
\* the uploads in flight and ended are the uploads dispatched), and every
\* attempt made while the client is connected puts the response on the
\* client channel, also in a session that is ending.
C12_UploadResponseDelivered ==
    [][/\ (BagCardinality(uploads') < BagCardinality(uploads)) =>
              (Responses(uploads') = Responses(uploads) - 1)
       /\ BagCardinality(uploads') <= Dispatched'
       /\ (ResponseWritten /\ client = "connected") => WsWritable]_vars

UploadSteps == <<"open", "start", "write", "close", "wait">>

IsUploadStep(e) == e[1] # "dial"
StepsDone == SelectSeq(up.events, IsUploadStep)

\* C13: an upload call (handleFileUpload or uploadFileViaSSH) performs its
\* steps in the order open channel, start command, write payload, close
\* the command's input, wait; it makes one report; the report is success,
\* carrying the path /tmp/<filename>, exactly when all five steps succeeded
\* and the command exited with status zero, and otherwise a failure with a
\* non-empty error and no path.  A payload of zero bytes goes through the
\* same steps.
C13_UploadStepsAndReport ==
    /\ \A i \in 1..Len(StepsDone) :
          /\ i <= Len(UploadSteps) /\ StepsDone[i][1] = UploadSteps[i]
          /\ (i > 1) => StepsDone[i - 1][2] \/ UploadSteps[i] = "wait"
    /\ Len(up.report) <= 1
    /\ (up.pc = "returned") =>
          /\ Len(up.report) = 1
          /\ up.report[1].success <=>
                (Len(StepsDone) = 5 /\ \A i \in 1..5 : StepsDone[i][2])
          /\ up.report[1].success =>
                (/\ up.report[1].path = <<"/", "t", "m", "p", "/">> \o up.filename
                 /\ up.report[1].error = "")
          /\ ~up.report[1].success =>
                (up.report[1].error # "" /\ up.report[1].path = <<>>)

\* C13 witness: handleFileUpload has reported success for a payload of
\* zero bytes after all five steps.
C13_Witness ==
    /\ up.pc = "returned" /\ up.fn = "handleFileUpload"
    /\ up.data = "" /\ up.bytes = <<>> /\ up.sent = <<>>
    /\ Len(StepsDone) = 5
    /\ up.report[1].success

\* the uploads of a bag that are on a failure path at pc
FailedAt(bag, pc) ==
    BagCardinality([t \in {u \in BagToSet(bag) : u.pc = pc /\ ~u.success} |-> bag[t]])

\* a step of an upload on a failure path: it takes its failure branch,
\* enters the write of its failure response, or returns from it
FailedUploadStep ==
    \/ FailedAt(uploads', "respond") # FailedAt(uploads, "respond")
    \/ FailedAt(uploads', "responding") # FailedAt(uploads, "responding")

\* C14: a failing upload does not end the session: none of its steps
\* releases the client channel, the shell session or the connection, moves
\* the bridge or a session worker, or closes the shell's input, and the
\* process with its session workers keeps running.
C14_FailedUploadLeavesSession ==
    [][FailedUploadStep =>
          (/\ UNCHANGED <<brVars, outPc, errPc, ctlPc, stdin, remote, client>>
           /\ ~panicked')]_vars

\* the methods a call should offer, in order
ExpectedAuth(password, key) ==
    (IF password # "" THEN <<"password">> ELSE <<>>)
    \o (IF key # "absent" THEN <<"publickey">> ELSE <<>>)

\* C15: in each of the three functions the list of authentication methods
\* offered at the dial holds the password method first exactly when the
\* password is not empty, then the key method exactly when key bytes are
\* present; key bytes that do not parse end the call with an error before
\* any dial, and nothing else ends it before the dial.
C15_AuthMethodsInOrder ==
    /\ \A i \in 1..Len(est.dialled) :
          est.dialled[i][2] = ExpectedAuth(est.password, est.key)
    /\ Len(est.dialled) <= 1
    /\ (est.key = "bad") =>
          (/\ est.dialled = <<>>
           /\ est.pc \in {"password", "key", "returned"}
           /\ (est.pc = "returned") => (est.err = "failed to parse private key"))
    /\ (est.key # "bad" /\ est.pc \in {"connected", "returned"}) =>
          (Len(est.dialled) = 1)

\* C15 witness: uploadFileViaSSH has dialled offering the password method
\* and then the key method.
C15_Witness ==
    /\ est.fn = "uploadFileViaSSH" /\ est.pc = "connected"
    /\ est.password = "pw" /\ est.key = "good"
    /\ est.dialled[1][2] = <<"password", "publickey">>

Colons(host) == Cardinality({i \in 1..Len(host) : host[i] = ":"})

\* a host specifies a port when it is [address]:port, or when it is not
\* bracketed and holds a single colon (name:port, a.b.c.d:port); a bare
\* IPv6 address, with its several colons, specifies none
SpecifiesPort(host) ==
    IF host # <<>> /\ host[1] = "["
    THEN \E i \in 1..(Len(host) - 1) : host[i] = "]" /\ host[i + 1] = ":"
    ELSE Colons(host) = 1

\* C16: the address dialled is the host unchanged when the host specifies
\* a port, and the host with :22 appended exactly when it specifies none,
\* bracketed and bare IPv6 addresses included.
C16_DefaultPortWhenAbsent ==
    \A i \in 1..Len(est.dialled) :
        est.dialled[i][1] =
            IF SpecifiesPort(est.host) THEN est.host ELSE est.host \o <<":", "2", "2">>

\* handleSSHConnection has returned without a connection: the key did not
\* parse or the dial failed
EstablishmentFailed == brPc = "returned" /\ ~Closed("conn")

\* C17: when connection establishment fails in handleSSHConnection (the
\* key does not parse, or the dial fails), the failing step writes exactly
\* one diagnostic frame, on a client channel that has not been closed, and
\* the call returns with no worker started, nothing else written to the
\* client and nothing released.
C17_EstablishmentFailureDiagnosed ==
    /\ []((brPc \in {"parsekey", "dial"}) => (diag = 0 /\ ~Closed("ws")))
    /\ [][(brPc \in {"parsekey", "dial"} /\ brPc' = "returned") =>
             (diag' = diag + 1 /\ released' = released)]_vars
    /\ [](EstablishmentFailed =>
             (/\ diag = 1
              /\ released = <<>>
              /\ outPc = "idle" /\ errPc = "idle" /\ ctlPc = "idle"
              /\ outSent = <<>> /\ errSent = <<>>
              /\ uploads = EmptyBag /\ stdin = "none"
              /\ ~wsGarbled /\ ~panicked))

\* C17 witness: establishment has failed and handleSSHConnection has
\* returned after its one diagnostic frame.
C17_Witness ==
    /\ brPc = "returned" /\ remote = "none" /\ released = <<>>
    /\ diag = 1 /\ client = "connected"

\* the base name of a path: its last stretch of characters other than /
LastSegment(path) ==
    LET n == CHOOSE n \in 0..Len(path) :
                 /\ \A i \in (n + 1)..Len(path) : path[i] = "/"
                 /\ (n = 0 \/ path[n] # "/")
        k == CHOOSE k \in 0..n :
                 /\ (k = 0 \/ path[k] = "/")
                 /\ \A i \in (k + 1)..n : path[i] # "/"
    IN  SubSeq(path, k + 1, n)

\* C18: a download sets the Content-Disposition header (carrying the base
\* name of the remote path) and the Content-Type header before it writes
\* the first byte to the sink, on every path that writes a byte.
C18_HeadersBeforeFirstByte ==
    /\ []((dl.sink > 0) =>
             (/\ dl.headers = {"Content-Disposition", "Content-Type"}
              /\ dl.disposition = LastSegment(dl.path)))
    /\ [][(dl.sink' # dl.sink) =>
             (/\ dl.headers = {"Content-Disposition", "Content-Type"}
              /\ dl.disposition = LastSegment(dl.path)
              /\ UNCHANGED <<dl.headers, dl.disposition>>)]_vars

\* C18 witness: bytes of /home/a.txt have been written to the sink.
C18_Witness ==
    /\ dl.path = <<"/", "h", "o", "m", "e", "/", "a", ".", "t", "x", "t">>
    /\ dl.sink = MaxFileBytes
    /\ dl.disposition = <<"a", ".", "t", "x", "t">>
    /\ dl.pc = "wait"

\* C19: a download whose copy fails or whose command exits non-zero
\* returns an error and an empty file name, also when bytes have already
\* been written to the sink; it returns the base name and no error only
\* when the copy completed and the command exited with status zero.
C19_FailedDownloadNotSuccess ==
    /\ (dl.copied = "failed" \/ dl.exit = "nonzero") =>
          (dl.err # NoError /\ dl.filename = <<>>)
    /\ (dl.pc = "returned") =>
          /\ (dl.err = NoError) <=> (dl.copied = "ok" /\ dl.exit = "zero")
          /\ (dl.err = NoError) => (dl.filename = LastSegment(dl.path))
          /\ (dl.err # NoError) => (dl.filename = <<>>)

\* C19 witness: a download has returned an error for a non-zero exit after
\* bytes had been written to the sink.
C19_Witness ==
    /\ dl.pc = "returned" /\ dl.sink > 0
    /\ dl.copied = "ok" /\ dl.exit = "nonzero"
    /\ dl.err = "failed to download file" /\ dl.filename = <<>>

CommandStarted == \E i \in 1..Len(up.events) : up.events[i] = <<"start", TRUE>>

\* C20: for every file name, with a quote character, spaces or shell
\* metacharacters in it, the command an upload starts is read by the
\* remote shell as the one command cat with its output redirected to
\* exactly /tmp/<filename>.
C20_UploadTargetExact ==
    CommandStarted =>
        /\ up.shell.ok
        /\ up.shell.cmds =
              << << <<"c", "a", "t">>, <<">">>, <<"/", "t", "m", "p", "/">> \o up.filename >> >>

\* C21: the write of an upload response to the client channel is never in
\* progress at the same time as a write of the stdout worker, of the
\* stderr worker or of another upload task.
C21_UploadResponseSerialized ==
    (Responses(uploads) > 0) =>
        (/\ Responses(uploads) = 1
         /\ outPc # "writing"
         /\ errPc # "writing")

ReleasedResources == [i \in 1..Len(released) |-> released[i][1]]

\* C22: in a run that started the workers the bridge releases nothing
\* while it waits for the stdout worker; it leaves that wait only on the
\* stdout worker's signal, then leaves session.Wait() only once the remote
\* shell has exited (or the transport is lost), and then closes the client
\* channel, the shell session and the connection, in that order.
C22_TeardownOrder ==
    /\ [](WorkersStarted =>
             (/\ IsPrefix(ReleasedResources, <<"ws", "session", "conn">>)
              /\ (brPc \in {"waitdone", "sessionwait", "wsclose"}) => (released = <<>>)
              /\ (released # <<>>) =>
                    (outPc = "stopped" /\ remote \in {"exited", "lost"})
              /\ (brPc = "returned") => (Len(released) = 3)))
    /\ [][/\ (brPc = "waitdone" /\ brPc' # brPc) =>
                (outPc = "signal" /\ brPc' = "sessionwait")
          /\ (brPc = "sessionwait" /\ brPc' # brPc) =>
                (remote \in {"exited", "lost"} /\ brPc' = "wsclose")
          /\ (brPc = "wsclose" /\ brPc' # brPc) =>
                (released' = <<<<"ws", "bridge">>>> /\ brPc' = "closesession")]_vars

\* C22 witness: a session whose shell exited has been torn down in order.
C22_Witness ==
    /\ brPc = "returned" /\ remote = "exited" /\ outPc = "stopped"
    /\ ReleasedResources = <<"ws", "session", "conn">>

\* C23: the control worker holds at most the one message it has just
\* received and takes the next frame only after that message has taken
\* effect; an input message appends exactly its data to what has been
\* written to the shell's input (nothing, when the write fails and the
\* worker stops), a resize message appends its request, and nothing is ever
\* inserted before or removed from what took effect earlier: input and
\* resize messages take effect verbatim, in the order received.
C23_InputVerbatimInOrder ==
    /\ []((ctlPc # "dispatch") => (ctlMsg = NoMsg))
    /\ [][/\ CtlTakesFrame => (ctlLog' = ctlLog /\ ctlMsg = NoMsg)
          /\ (ctlPc = "dispatch" /\ ctlMsg.type = "input" /\ ctlPc' # "dispatch") =>
                \/ ctlLog' = Append(ctlLog, <<"input", ctlMsg.data>>) /\ ctlPc' = "read"
                \/ ctlLog' = ctlLog /\ ctlPc' = "exit_writeerr"
          /\ (ctlPc = "dispatch" /\ ctlMsg.type = "resize" /\ ctlPc' # "dispatch") =>
                (Len(ctlLog') = Len(ctlLog) + 1 /\ IsWinch(ctlLog'[Len(ctlLog')]))
          /\ (ctlLog' # ctlLog) =>
                (/\ ctlPc = "dispatch"
                 /\ Len(ctlLog') = Len(ctlLog) + 1
                 /\ IsPrefix(ctlLog, ctlLog'))]_vars

\* C23 witness: input a, a resize and input b have taken effect in that
\* order.
C23_Witness ==
    /\ Len(ctlLog) = 3
    /\ ctlLog[1] = <<"input", "a">>
    /\ IsWinch(ctlLog[2])
    /\ ctlLog[3] = <<"input", "b">>

\* handleSSHConnection is past its set-up without having started the
\* workers
SetUpAbandoned == ~WorkersStarted /\ brPc \in {"closesession", "closeconn", "returned"}

\* C24: the shell is started only on a pseudo-terminal that was requested
\* with 80 columns and 40 rows; the workers run only once the shell has
\* been started; and when the pseudo-terminal request or the shell start
\* fails no worker is started and no frame is forwarded.
C24_StartUpOrder ==
    /\ []((brPc = "shell" \/ remote \notin {"none", "up"}) =>
             (pty.cols = 80 /\ pty.rows = 40 /\ pty.term = "xterm-256color"))
    /\ []((brPc \in {"parsekey", "dial", "newsession", "pty"}) =>
             (pty = NoPty /\ remote \in {"none", "up"}))
    /\ []((outPc # "idle" \/ errPc # "idle" \/ ctlPc # "idle") =>
             (remote \notin {"none", "up"} /\ stdin # "none"))
    /\ [](SetUpAbandoned =>
             (/\ outPc = "idle" /\ errPc = "idle" /\ ctlPc = "idle"
              /\ outSent = <<>> /\ errSent = <<>> /\ remote \in {"none", "up"}))
    /\ [][/\ (brPc = "pty" /\ brPc' \notin {"pty", "pipes"}) => (brPc' = "closesession")
          /\ (brPc = "shell" /\ brPc' \notin {"shell", "spawn"}) => (brPc' = "closesession")
          /\ (WorkersStarted' /\ ~WorkersStarted) => (brPc = "spawn")]_vars

\* C24 witness: the workers run on a shell started on the 80x40 terminal.
C24_Witness ==
    /\ outPc = "read" /\ errPc = "read" /\ ctlPc = "read"
    /\ remote = "running"
    /\ pty.cols = 80 /\ pty.rows = 40

\* the uploads of a bag that are at pc
InFlightAt(bag, pc) ==
    BagCardinality([t \in {u \in BagToSet(bag) : u.pc = pc} |-> bag[t]])

\* an upload opens its command channel on the connection, starts its
\* command, writes its payload or waits for the command
UploadUsesConnection ==
    \E pc \in {"newsession", "start", "write", "wait"} :
        InFlightAt(uploads', pc) < InFlightAt(uploads, pc)

\* C25: an upload task opens a command channel on, or writes to, the
\* connection only while handleSSHConnection has not closed it, and writes
\* its response to the client channel only while handleSSHConnection has
\* not closed that.
C25_UploadUsesNothingReleased ==
    [][/\ UploadUsesConnection => ~Closed("conn")
       /\ ResponseWritten => ~Closed("ws")]_vars

\* C26: whenever the control worker has stopped, the remote shell's input
\* stream has been closed.
C26_StoppedControlClosedInput ==
    (ctlPc \in {"exit_readfault", "exit_writeerr"}) => (stdin = "closed")

\* C27: a run of handleSSHConnection that failed during set-up has written
\* a diagnostic frame to the client channel by the time it gives up.
C27_SetUpFailureDiagnosed ==
    SetUpAbandoned => (diag >= 1)

\* C28: the stdout worker sends on done once, when it stops, and never
\* again; the send happens only together with the bridge's one receive,
\* and the bridge receives from nobody else; whenever the worker is at its
\* send the bridge is at its receive, and the send is eventually received.
C28_DoneSentOnceAndReceived ==
    /\ []((outPc = "signal") => (brPc = "waitdone"))
    /\ [][/\ (outPc' = "stopped" /\ outPc # "stopped") =>
                (outPc = "signal" /\ brPc = "waitdone" /\ brPc' = "sessionwait")
          /\ (outPc = "stopped") => (outPc' = "stopped" /\ brPc' # "waitdone")
          /\ (brPc = "waitdone" /\ brPc' # "waitdone") =>
                (outPc = "signal" /\ outPc' = "stopped")
          /\ (outPc' = "signal" /\ outPc # "signal") => (outPc = "read")]_vars
    /\ ((outPc = "signal") ~> (outPc = "stopped"))

\* what a transfer function has opened so far
UvsDialled == \E i \in DOMAIN up.events : up.events[i] = <<"dial", TRUE>>
UvsOpened == \E i \in DOMAIN up.events : up.events[i] = <<"open", TRUE>>
DlDialled ==
    /\ \E i \in DOMAIN dl.events : dl.events[i] = "dial"
    /\ dl.err # "failed to connect to SSH server"
DlOpened ==
    /\ \E i \in DOMAIN dl.events : dl.events[i] = "newsession"
    /\ dl.err # "failed to create download session"

\* what must have been closed, in order, when the function returns
MustClose(dialled, opened) ==
    CASE opened -> <<"session", "conn">>
      [] dialled -> <<"conn">>
      [] OTHER -> <<>>

ReleasesWhatItOpened(closed, returned, dialled, opened) ==
    /\ IsPrefix(closed, MustClose(dialled, opened))
    /\ returned => closed = MustClose(dialled, opened)

\* C29: uploadFileViaSSH and downloadFileViaSSH close, at every moment, only
\* what they opened, each thing once and the command channel before the
\* connection; and when they return, on any path, everything they opened
\* has been closed: nothing after a failed dial, the connection alone after
\* a failed channel open, the channel and then the connection otherwise.
C29_TransfersReleaseWhatTheyOpen ==
    /\ (up.pc # "idle" /\ up.fn = "uploadFileViaSSH") =>
          ReleasesWhatItOpened(up.closed, up.pc = "returned", UvsDialled, UvsOpened)
    /\ (dl.pc # "idle") =>
          ReleasesWhatItOpened(dl.closed, dl.pc = "returned", DlDialled, DlOpened)

\* C29 witness: uploadFileViaSSH has returned a failure that came after the
\* command channel was opened, with both closed.
C29_Witness ==
    /\ up.pc # "idle"
    /\ up.fn = "uploadFileViaSSH"
    /\ up.pc = "returned"
    /\ UvsOpened
    /\ Len(up.report) = 1 /\ ~up.report[1].success
    /\ up.closed = <<"session", "conn">>

\* a payload that is not base64: "!" is outside the alphabet
BadPayload == up.pc # "idle" /\ up.fn = "handleFileUpload" /\ up.data = "!"

\* C30: an inline upload whose data is not valid base64 goes from the decode
\* straight to the return: no command channel is opened, no remote command
\* is started, nothing is written or closed, and the one response sent has
\* success = false and a non-empty error.
C30_BadBase64RejectedFirst ==
    BadPayload =>
        /\ up.pc \in {"decode", "returned"}
        /\ up.events = <<>>
        /\ up.shell = NothingRun
        /\ up.sent = <<>> /\ ~up.eof
        /\ up.closed = <<>>
        /\ Len(up.report) = (IF up.pc = "returned" THEN 1 ELSE 0)
        /\ \A i \in DOMAIN up.report :
              ~up.report[i].success /\ up.report[i].error # "" /\ up.report[i].path = <<>>

\* C30 witness: the bad payload has been rejected and the response sent.
C30_Witness == BadPayload /\ up.pc = "returned" /\ Len(up.report) = 1

====
